---- MODULE Spec2Model ----
(***************************************************************************)
(* A model of the video captioner: the web orchestrator                   *)
(* (src/lib/video_captioner.py) and the standalone desktop variant        *)
(* (src/public/downloads/video_captioner_standalone.py).                   *)
(*                                                                         *)
(* Text is a sequence of one-character strings.  Seconds are whole         *)
(* milliseconds.  The external collaborators (downloader, recognizer,      *)
(* translator, encoder, filesystem) are nondeterministic choices over      *)
(* their outcomes.                                                         *)
(***************************************************************************)
EXTENDS Integers, Sequences, FiniteSets, TLC

VARIABLES
    variant,        \* "web" or "standalone"
    pc,             \* position of the run
    config,         \* the job description (argv[1] / the prompted answers)
    tempExists,     \* the TemporaryDirectory of the with block exists
    everTemp,       \* the run created the temporary directory
    tempSrt,        \* the .srt file in the temporary directory
    video,          \* video_path, video_title, video_duration
    modelLoaded,    \* whisper.load_model has returned
    transcript,     \* result of model.transcribe
    srtLog,         \* per segment: outcome of the translation capability
    outDirExists,   \* the output directory exists
    outDir,         \* files of the output directory: name -> content
    stdout,         \* what was printed on the primary output
    stderr,         \* what was printed on the diagnostic stream
    exitStatus,     \* "running", "zero", "nonzero"
    failure,        \* the stage whose failure ended the run ("none" if none)
    burnResult,     \* "none", "ok", "absent", "error"
    dlAttempts,     \* the download attempts made, in order
    fmtIn, fmtOut,  \* format_timestamp: argument and returned string
    trIn, trOut     \* translate_text: arguments and what the call did

pipeVars ==
    <<variant, pc, config, tempExists, everTemp, tempSrt, video, modelLoaded,
      transcript, srtLog, outDirExists, outDir, stdout, stderr, exitStatus,
      failure, burnResult, dlAttempts>>
fmtVars ==
    <<fmtIn, fmtOut>>
trVars ==
    <<trIn, trOut>>
vars ==
    <<pipeVars, fmtVars, trVars>>

\* ------------------------------------------------------------------ bounds
\* Largest hour count of a formatted offset.
MaxHours ==
    101
\* Largest number of segments of a transcription.
MaxSegs ==
    2

\* ------------------------------------------------------------- characters
None ==
    "<None>"

Range(s) ==
    {s[i] : i \in 1..Len(s)}

WhitespaceChars ==
    {" ", "\t", "\n"}

RECURSIVE LStrip(_)
LStrip(s) ==
    IF s # <<>> /\ Head(s) \in WhitespaceChars THEN LStrip(Tail(s)) ELSE s

RECURSIVE RStrip(_)
RStrip(s) ==
    IF s # <<>> /\ s[Len(s)] \in WhitespaceChars
    THEN RStrip(SubSeq(s, 1, Len(s) - 1))
    ELSE s

\* str.strip()
Strip(s) ==
    LStrip(RStrip(s))

\* ------------------------------------------------------- format_timestamp
DigitChar(d) ==
    <<"0", "1", "2", "3", "4", "5", "6", "7", "8", "9">>[d + 1]

RECURSIVE Decimal(_)
\* the decimal digits of a natural number
Decimal(n) ==
    IF n < 10 THEN <<DigitChar(n)>> ELSE Append(Decimal(n \div 10), DigitChar(n % 10))

RECURSIVE Zeros(_)
Zeros(k) ==
    IF k <= 0 THEN <<>> ELSE <<"0">> \o Zeros(k - 1)

\* f"{n:0{w}d}": zero-padded to at least w digits, never cut
ZeroPad(n, w) ==
    Zeros(w - Len(Decimal(n))) \o Decimal(n)

\* a faulty variant: the minutes are not reduced modulo the hour
format_timestamp_minutes(ms) ==
    ZeroPad(ms \div 3600000, 2) \o <<":">> \o ZeroPad(ms \div 60000, 2)
        \o <<":">> \o ZeroPad((ms % 60000) \div 1000, 2)
        \o <<",">> \o ZeroPad(ms % 1000, 3)

\* format_timestamp(seconds), seconds = ms / 1000
format_timestamp(ms) ==
    LET hours   == ms \div 3600000
        minutes == (ms % 3600000) \div 60000
        secs    == (ms % 60000) \div 1000
        millis  == ms % 1000
    IN  ZeroPad(hours, 2) \o <<":">> \o ZeroPad(minutes, 2) \o <<":">>
            \o ZeroPad(secs, 2) \o <<",">> \o ZeroPad(millis, 3)

TimeSamples ==
    {h * 3600000 + m * 60000 + s * 1000 + f :
        h \in 0..MaxHours, m \in {0, 2, 59}, s \in {0, 5, 59}, f \in {0, 1, 400, 999}}

FmtInit ==
    /\ fmtIn \in TimeSamples
    /\ fmtOut = <<>>

FmtIdle ==
    /\ fmtIn = 0
    /\ fmtOut = <<>>

FormatCall ==
    /\ fmtOut = <<>>
    /\ fmtOut' = format_timestamp(fmtIn)
    /\ UNCHANGED fmtIn

\* ---------------------------------------------------------- translate_text
\* normalize_language_code(code)
normalize_language_code(code) ==
    CASE code = "he" -> "iw"
      [] code = "zh" -> "zh-CN"
      [] code = "jw" -> "jv"
      [] OTHER -> code

\* What GoogleTranslator(source, target).translate(text) does: it returns a
\* text, returns an empty text, returns None, or raises.
TranslatorOutcomes ==
    {"ok", "empty", "none", "raise"}

\* the outcomes tried on the segments of a run
SegmentOutcomes ==
    {"ok", "raise"}

\* the text the translation service returns for `text`
Translation(text, target) ==
    <<"[", target, "]">> \o text

GoogleTranslator(text, source, target, outcome) ==
    CASE outcome = "ok"    -> [raised |-> FALSE, isNone |-> FALSE, text |-> Translation(text, target)]
      [] outcome = "empty" -> [raised |-> FALSE, isNone |-> FALSE, text |-> <<>>]
      [] outcome = "none"  -> [raised |-> FALSE, isNone |-> TRUE, text |-> <<>>]
      [] OTHER             -> [raised |-> TRUE, isNone |-> TRUE, text |-> <<>>]

\* a faulty variant: no except clause, and the response is returned as it came
translate_text_unguarded(text, source_lang, target_lang, outcome) ==
    LET source == IF source_lang \in {None, ""} THEN "auto"
                  ELSE normalize_language_code(source_lang)
        target == normalize_language_code(target_lang)
        r      == GoogleTranslator(text, source, target, outcome)
    IN  [source |-> source, target |-> target, raised |-> r.raised,
         logged |-> FALSE, value |-> r.text]

\* translate_text(text, source_lang, target_lang); `outcome` is what the
\* external capability does on this call
translate_text(text, source_lang, target_lang, outcome) ==
    LET source == IF source_lang \in {None, ""} THEN "auto"
                  ELSE normalize_language_code(source_lang)
        target == normalize_language_code(target_lang)
        r      == GoogleTranslator(text, source, target, outcome)
    IN  IF r.raised
        THEN [source |-> source, target |-> target, raised |-> FALSE,
              logged |-> TRUE, value |-> text]
        ELSE [source |-> source, target |-> target, raised |-> FALSE,
              logged |-> FALSE,
              value |-> IF ~r.isNone /\ r.text # <<>> THEN r.text ELSE text]

TextSamples ==
    {<<>>, <<"h", "i">>, <<"a", " ", "b">>}

LangSamples ==
    {"he", "zh", "jw", "iw", "en", "es", "unknown"}

NoCall ==
    [source |-> "", target |-> "", raised |-> FALSE, logged |-> FALSE, value |-> <<>>,
     done |-> FALSE]

TrInit ==
    /\ trIn \in [text : TextSamples, source_lang : LangSamples \cup {None, ""},
                 target_lang : LangSamples, outcome : TranslatorOutcomes]
    /\ trOut = NoCall

TrIdle ==
    /\ trIn = [text |-> <<>>, source_lang |-> None, target_lang |-> "en", outcome |-> "ok"]
    /\ trOut = NoCall

TranslateCall ==
    /\ ~trOut.done
    /\ LET r == translate_text(trIn.text, trIn.source_lang, trIn.target_lang, trIn.outcome)
       IN  trOut' = [source |-> r.source, target |-> r.target, raised |-> r.raised,
                     logged |-> r.logged, value |-> r.value, done |-> TRUE]
    /\ UNCHANGED trIn

\* ------------------------------------------------------------ the pipeline
AlnumChars ==
    {"a", "b", "c", "d", "e", "f", "g", "h", "i", "j", "k", "l", "m", "n", "o", "p",
     "q", "r", "s", "t", "u", "v", "w", "x", "y", "z",
     "A", "B", "C", "D", "E", "F", "G", "H", "I", "J", "K", "L", "M", "N", "O", "P",
     "Q", "R", "S", "T", "U", "V", "W", "X", "Y", "Z",
     "0", "1", "2", "3", "4", "5", "6", "7", "8", "9"}

RECURSIVE KeepSafe(_)
\* "".join(c for c in video_title if c.isalnum() or c in (' ', '-', '_'))
KeepSafe(s) ==
    IF s = <<>> THEN <<>>
    ELSE IF Head(s) \in AlnumChars \cup {" ", "-", "_"}
         THEN <<Head(s)>> \o KeepSafe(Tail(s))
         ELSE KeepSafe(Tail(s))

\* safe_title: filtered, stripped, spaces replaced by underscores
safe_title(title) ==
    LET kept == Strip(KeepSafe(title))
    IN  [i \in 1..Len(kept) |-> IF kept[i] = " " THEN "_" ELSE kept[i]]

\* lang_map of the web orchestrator
WebLangMap ==
    {<<"iw", "hebrew">>, <<"he", "hebrew">>, <<"en", "english">>, <<"es", "spanish">>,
     <<"fr", "french">>, <<"de", "german">>, <<"it", "italian">>, <<"pt", "portuguese">>,
     <<"ru", "russian">>, <<"ja", "japanese">>, <<"ko", "korean">>,
     <<"zh-CN", "chinese">>, <<"zh", "chinese">>, <<"ar", "arabic">>, <<"hi", "hindi">>,
     <<"tr", "turkish">>, <<"nl", "dutch">>, <<"pl", "polish">>, <<"sv", "swedish">>,
     <<"da", "danish">>, <<"fi", "finnish">>, <<"no", "norwegian">>, <<"cs", "czech">>,
     <<"el", "greek">>, <<"hu", "hungarian">>, <<"ro", "romanian">>, <<"th", "thai">>,
     <<"id", "indonesian">>, <<"vi", "vietnamese">>, <<"uk", "ukrainian">>,
     <<"bg", "bulgarian">>, <<"hr", "croatian">>, <<"sr", "serbian">>, <<"sk", "slovak">>,
     <<"sl", "slovenian">>, <<"fa", "persian">>, <<"ur", "urdu">>, <<"ta", "tamil">>,
     <<"te", "telugu">>, <<"mr", "marathi">>, <<"bn", "bengali">>}

\* lang_map of the standalone variant
StandaloneLangMap ==
    {<<"iw", "hebrew">>, <<"he", "hebrew">>, <<"en", "english">>, <<"es", "spanish">>,
     <<"fr", "french">>, <<"de", "german">>, <<"it", "italian">>, <<"pt", "portuguese">>,
     <<"ru", "russian">>, <<"ja", "japanese">>, <<"ko", "korean">>,
     <<"zh-CN", "chinese">>, <<"zh", "chinese">>, <<"ar", "arabic">>}

\* lang_map.get(code, code)
MapGet(map, code) ==
    IF \E p \in map : p[1] = code
    THEN (CHOOSE p \in map : p[1] = code)[2]
    ELSE code

\* a translation target was requested (`if translate_to:`)
Translating ==
    config.translate_to \notin {None, ""}

\* language_suffix, without its leading underscore ("" when not translating)
language_suffix ==
    IF Translating
    THEN MapGet(IF variant = "web" THEN WebLangMap ELSE StandaloneLangMap,
                config.translate_to)
    ELSE ""

\* a file name of the output directory: f"{base}{_suffix}{tail}"
FileName(base, suffix, tail) ==
    [base |-> base, suffix |-> suffix, tail |-> tail]

\* output_filename when burning
CaptionedName ==
    FileName(safe_title(video.title), language_suffix, "_captioned.mp4")

\* output_filename when not burning, and fallback_srt
SrtName ==
    FileName(safe_title(video.title), language_suffix, ".srt")

\* fallback_video
OriginalName ==
    FileName(safe_title(video.title), "", "_original.mp4")

\* output_filename
output_filename ==
    IF config.burn THEN CaptionedName ELSE SrtName

\* the stem of the local file
Titles ==
    {<<" ", "a", "-", "b", " ", "1", "/">>}

DefaultTitle ==
    <<"v", "i", "d", "e", "o">>

NoConfig ==
    [has |-> FALSE, url |-> FALSE, exists |-> FALSE, stem |-> <<>>,
     translate_to |-> None, burn |-> FALSE]

\* the job descriptions: a URL, or a local path that exists or not
Configs ==
    {c \in [has : {TRUE}, url : BOOLEAN, exists : BOOLEAN, stem : Titles,
            translate_to : {None, "he", "tr"}, burn : BOOLEAN] :
        c.url => c.exists}

NoVideo ==
    [path |-> "none", title |-> <<>>, duration |-> 0]

NoFile ==
    [exists |-> FALSE, records |-> <<>>]

NoTranscript ==
    [done |-> FALSE, segments |-> <<>>, language |-> "unknown"]

PipeInit ==
    /\ variant \in {"web", "standalone"}
    /\ config \in Configs \cup {NoConfig}
    /\ pc = "imports"
    /\ tempExists = FALSE
    /\ everTemp = FALSE
    /\ tempSrt = NoFile
    /\ video = NoVideo
    /\ modelLoaded = FALSE
    /\ transcript = NoTranscript
    /\ srtLog = <<>>
    /\ outDirExists = FALSE
    /\ outDir = {}
    /\ stdout = <<>>
    /\ stderr = <<>>
    /\ exitStatus = "running"
    /\ failure = "none"
    /\ burnResult = "none"
    /\ dlAttempts = <<>>

PipeIdle ==
    /\ variant = "web"
    /\ config = NoConfig
    /\ pc = "idle"
    /\ tempExists = FALSE
    /\ everTemp = FALSE
    /\ tempSrt = NoFile
    /\ video = NoVideo
    /\ modelLoaded = FALSE
    /\ transcript = NoTranscript
    /\ srtLog = <<>>
    /\ outDirExists = FALSE
    /\ outDir = {}
    /\ stdout = <<>>
    /\ stderr = <<>>
    /\ exitStatus = "running"
    /\ failure = "none"
    /\ burnResult = "none"
    /\ dlAttempts = <<>>

\* ---------------------------------------------------------------- exits
Json(kind, body) ==
    [kind |-> kind, body |-> body]

\* a faulty variant: the process ends without the with block being left
Terminate_leak(status, kind) ==
    /\ pc' = "done"
    /\ tempExists' = tempExists
    /\ exitStatus' = status
    /\ failure' = kind

\* The process ends.  Leaving `with tempfile.TemporaryDirectory()` by return,
\* exception, SystemExit or KeyboardInterrupt removes the directory.
Terminate(status, kind) ==
    /\ pc' = "done"
    /\ tempExists' = FALSE
    /\ exitStatus' = status
    /\ failure' = kind

\* An exception leaves main().  The web script has no handler: the interpreter
\* prints the traceback on stderr and exits 1.  The standalone script's
\* `except Exception` prints "Error: ..." and exits 1.
Raise(kind) ==
    /\ Terminate("nonzero", kind)
    /\ IF variant = "web"
       THEN /\ stderr' = Append(stderr, "Traceback")
            /\ stdout' = stdout
       ELSE /\ stdout' = Append(stdout, Json("text", [line |-> "Error"]))
            /\ stderr' = stderr

\* print(...) then sys.exit(1): the web script prints a JSON error object
ExitWithError(kind, message) ==
    /\ Terminate("nonzero", kind)
    /\ stdout' = Append(stdout,
                        IF variant = "web" THEN Json("error", [error |-> message])
                        ELSE Json("text", [line |-> message]))
    /\ stderr' = stderr

\* ------------------------------------------------------------ the stages
\* the import guards at the top of both scripts
ImportGuards ==
    /\ pc = "imports"
    /\ \E missing \in {"none", "whisper", "yt-dlp", "deep-translator"} :
          IF missing = "none"
          THEN /\ pc' = "main"
               /\ UNCHANGED <<tempExists, exitStatus, failure, stdout, stderr>>
          ELSE ExitWithError("setup", missing)
    /\ UNCHANGED <<variant, config, everTemp, tempSrt, video, modelLoaded, transcript,
                   srtLog, outDirExists, outDir, burnResult, dlAttempts>>

\* web main(): the argv check
ParseArgs ==
    /\ pc = "main"
    /\ variant = "web"
    /\ IF ~config.has
       THEN ExitWithError("no_config", "No config provided")
       ELSE /\ pc' = "mktemp"
            /\ UNCHANGED <<tempExists, exitStatus, failure, stdout, stderr>>
    /\ UNCHANGED <<variant, config, everTemp, tempSrt, video, modelLoaded, transcript,
                   srtLog, outDirExists, outDir, burnResult, dlAttempts>>

\* standalone main(): the prompts, then os.makedirs(output_dir, exist_ok=True)
Prompt ==
    /\ pc = "main"
    /\ variant = "standalone"
    /\ IF ~config.has
       THEN /\ ExitWithError("no_config", "Error: No input provided")
            /\ UNCHANGED outDirExists
       ELSE \E ok \in BOOLEAN :
               IF ok
               THEN /\ outDirExists' = TRUE
                    /\ pc' = "mktemp"
                    /\ UNCHANGED <<tempExists, exitStatus, failure, stdout, stderr>>
               ELSE /\ Raise("mkdir")
                    /\ UNCHANGED outDirExists
    /\ UNCHANGED <<variant, config, everTemp, tempSrt, video, modelLoaded, transcript,
                   srtLog, outDir, burnResult, dlAttempts>>

\* with tempfile.TemporaryDirectory() as temp_dir:
MkTemp ==
    /\ pc = "mktemp"
    /\ tempExists' = TRUE
    /\ everTemp' = TRUE
    /\ pc' = "acquire"
    /\ UNCHANGED <<variant, config, tempSrt, video, modelLoaded, transcript, srtLog,
                   outDirExists, outDir, stdout, stderr, exitStatus, failure,
                   burnResult, dlAttempts>>

\* ------------------------------------------------- download_youtube_video
\* the info dicts of the downloader: 'title' and 'duration' may be absent
Infos ==
    {i \in [has_title : BOOLEAN, title : {<<"M", "y", ":", " ", "C", "?">>},
            has_duration : BOOLEAN, duration : {754}] :
        i.has_title = i.has_duration}

\* what one YoutubeDL attempt does: it raises, or returns an info dict
DownloadOutcomes ==
    [ok : {FALSE}, info : {CHOOSE i \in Infos : ~i.has_title /\ ~i.has_duration}]
        \cup [ok : {TRUE}, info : Infos]

\* filename, title, duration of a successful attempt
Downloaded(info) ==
    [path |-> "temp",
     title |-> IF info.has_title THEN info.title ELSE DefaultTitle,
     duration |-> IF info.has_duration THEN info.duration ELSE 0]

FirstFormat ==
    "18"

\* a faulty variant: the retry asks for the fixed format again
RetryFormat_same ==
    "18"

RetryFormat ==
    "best[height<=720]/best"

\* the record of one attempt: ydl_opts['format'] and what YoutubeDL did
Attempt(format, r) ==
    [format |-> format, ok |-> r.ok, info |-> r.info]

\* the try block of download_youtube_video
DownloadFirst ==
    /\ pc = "acquire"
    /\ config.url
    /\ \E r \in DownloadOutcomes :
          /\ dlAttempts' = Append(dlAttempts, Attempt(FirstFormat, r))
          /\ IF r.ok
             THEN /\ video' = Downloaded(r.info)
                  /\ pc' = "load_model"
             ELSE /\ video' = video
                  /\ pc' = "download_retry"
    /\ UNCHANGED <<variant, config, tempExists, everTemp, tempSrt, modelLoaded,
                   transcript, srtLog, outDirExists, outDir, stdout, stderr,
                   exitStatus, failure, burnResult>>

\* the except block of download_youtube_video; its failure leaves main()
DownloadRetry ==
    /\ pc = "download_retry"
    /\ \E r \in DownloadOutcomes :
          /\ dlAttempts' = Append(dlAttempts, Attempt(RetryFormat, r))
          /\ IF r.ok
             THEN /\ video' = Downloaded(r.info)
                  /\ pc' = "load_model"
                  /\ UNCHANGED <<tempExists, exitStatus, failure, stdout, stderr>>
             ELSE /\ video' = video
                  /\ Raise("download")
    /\ UNCHANGED <<variant, config, everTemp, tempSrt, modelLoaded, transcript, srtLog,
                   outDirExists, outDir, burnResult>>

\* the else branch of `if is_youtube`.  The standalone script checks
\* os.path.exists and exits 1; the web script takes the path as given.
AcquireLocal ==
    /\ pc = "acquire"
    /\ ~config.url
    /\ IF variant = "standalone" /\ ~config.exists
       THEN /\ ExitWithError("file_not_found", "Error: File not found")
            /\ UNCHANGED video
       ELSE /\ video' = [path |-> "local", title |-> config.stem, duration |-> 0]
            /\ pc' = "load_model"
            /\ UNCHANGED <<tempExists, exitStatus, failure, stdout, stderr>>
    /\ UNCHANGED <<variant, config, everTemp, tempSrt, modelLoaded, transcript, srtLog,
                   outDirExists, outDir, burnResult, dlAttempts>>

\* ------------------------------------------------------------- recognition
\* model = whisper.load_model(...)
LoadModel ==
    /\ pc = "load_model"
    /\ \E ok \in BOOLEAN :
          IF ok
          THEN /\ modelLoaded' = TRUE
               /\ pc' = "transcribe"
               /\ UNCHANGED <<tempExists, exitStatus, failure, stdout, stderr>>
          ELSE /\ modelLoaded' = modelLoaded
               /\ Raise("model_load")
    /\ UNCHANGED <<variant, config, everTemp, tempSrt, video, transcript, srtLog,
                   outDirExists, outDir, burnResult, dlAttempts>>

\* the segments the recognizer can return: chronological, texts untrimmed
SegTexts ==
    {<<" ", "h", "i", "\n">>, <<"y", "o">>}

SegTimes ==
    <<[start |-> 0, end |-> 1500], [start |-> 1500, end |-> 59999],
      [start |-> 3725400, end |-> 360000001]>>

RECURSIVE SegSeqsFrom(_, _)
\* the chronological segment sequences of at most n segments, from slot k on
SegSeqsFrom(k, n) ==
    IF n = 0 \/ k > Len(SegTimes) THEN {<<>>}
    ELSE {<<>>} \cup
         UNION {{<<[start |-> SegTimes[j].start, end |-> SegTimes[j].end, text |-> t]>> \o rest :
                    t \in SegTexts, rest \in SegSeqsFrom(j + 1, n - 1)} :
                j \in k..Len(SegTimes)}

SegSeqs ==
    SegSeqsFrom(1, MaxSegs)

\* the file of video_path can be read
VideoReadable ==
    video.path = "temp" \/ (video.path = "local" /\ config.exists)

\* result = model.transcribe(video_path ...); an unreadable file makes it raise
Transcribe ==
    /\ pc = "transcribe"
    /\ \E ok \in BOOLEAN, segs \in SegSeqs, lang \in {"en", "unknown"} :
          IF ok /\ VideoReadable
          THEN /\ transcript' = [done |-> TRUE, segments |-> segs, language |-> lang]
               /\ pc' = "srt_open"
               /\ UNCHANGED <<tempExists, exitStatus, failure, stdout, stderr>>
          ELSE /\ transcript' = transcript
               /\ Raise("recognition")
    /\ UNCHANGED <<variant, config, everTemp, tempSrt, video, modelLoaded, srtLog,
                   outDirExists, outDir, burnResult, dlAttempts>>

\* ------------------------------------------------------------ generate_srt
detected_lang ==
    transcript.language

\* a faulty variant: the records are numbered from 0
SrtRecord_zero(i, segment, text) ==
    [index |-> i - 1, start |-> format_timestamp(segment.start),
     end |-> format_timestamp(segment.end), text |-> text]

\* the three writes of one loop iteration: number, time range, text + blank
SrtRecord(i, segment, text) ==
    [index |-> i, start |-> format_timestamp(segment.start),
     end |-> format_timestamp(segment.end), text |-> text]

\* a diagnostic line: stderr in the web script, stdout in the standalone one
Log(line, out, err) ==
    IF variant = "web"
    THEN /\ stderr' = Append(err, line)
         /\ stdout' = out
    ELSE /\ stdout' = Append(out, Json("text", [line |-> line]))
         /\ stderr' = err

\* with open(output_path, 'w', encoding='utf-8') as f:
SrtOpen ==
    /\ pc = "srt_open"
    /\ \E ok \in BOOLEAN :
          IF ok
          THEN /\ tempSrt' = [exists |-> TRUE, records |-> <<>>]
               /\ pc' = "srt_loop"
               /\ UNCHANGED <<tempExists, exitStatus, failure, stdout, stderr>>
          ELSE /\ tempSrt' = tempSrt
               /\ Raise("emit")
    /\ UNCHANGED <<variant, config, everTemp, video, modelLoaded, transcript, srtLog,
                   outDirExists, outDir, burnResult, dlAttempts>>

\* one iteration of `for i, segment in enumerate(segments, start=1)`
SrtStep ==
    /\ pc = "srt_loop"
    /\ Len(tempSrt.records) < Len(transcript.segments)
    /\ LET i       == Len(tempSrt.records) + 1
           segment == transcript.segments[i]
           text    == Strip(segment.text)
       IN  IF Translating
           THEN \E outcome \in SegmentOutcomes :
                   LET t == translate_text(text, detected_lang, config.translate_to, outcome)
                   IN  /\ tempSrt' = [tempSrt EXCEPT
                                        !.records = Append(@, SrtRecord(i, segment, t.value))]
                       /\ srtLog' = Append(srtLog, outcome)
                       /\ IF t.logged
                          THEN Log("Translation error", stdout, stderr)
                          ELSE UNCHANGED <<stdout, stderr>>
           ELSE /\ tempSrt' = [tempSrt EXCEPT
                                 !.records = Append(@, SrtRecord(i, segment, text))]
                /\ srtLog' = Append(srtLog, "off")
                /\ UNCHANGED <<stdout, stderr>>
    /\ UNCHANGED <<variant, config, pc, tempExists, everTemp, video, modelLoaded,
                   transcript, outDirExists, outDir, exitStatus, failure, burnResult,
                   dlAttempts>>

\* the loop ends and the file is closed; the name derivation follows
SrtClose ==
    /\ pc = "srt_loop"
    /\ Len(tempSrt.records) = Len(transcript.segments)
    /\ pc' = IF variant = "web" THEN "makedirs" ELSE "output"
    /\ UNCHANGED <<variant, config, tempExists, everTemp, tempSrt, video, modelLoaded,
                   transcript, srtLog, outDirExists, outDir, stdout, stderr, exitStatus,
                   failure, burnResult, dlAttempts>>

\* web main(): os.makedirs(output_dir, exist_ok=True)
MakeDirs ==
    /\ pc = "makedirs"
    /\ \E ok \in BOOLEAN :
          IF ok
          THEN /\ outDirExists' = TRUE
               /\ pc' = "output"
               /\ UNCHANGED <<tempExists, exitStatus, failure, stdout, stderr>>
          ELSE /\ outDirExists' = outDirExists
               /\ Raise("mkdir")
    /\ UNCHANGED <<variant, config, everTemp, tempSrt, video, modelLoaded, transcript,
                   srtLog, outDir, burnResult, dlAttempts>>

\* ----------------------------------------------------- the output directory
SrtContent ==
    [kind |-> "srt", records |-> tempSrt.records, complete |-> TRUE]

VideoContent(kind, complete) ==
    [kind |-> kind, records |-> <<>>, complete |-> complete]

\* the directory after `content` is written at `name` (an existing file of
\* that name is overwritten)
WriteFile(dir, name, content) ==
    {f \in dir : f.name # name} \cup {[name |-> name, content |-> content]}

\* What the encoder does: it is not installed; it exits 0 having written the
\* destination; it exits non-zero before creating the destination; or it
\* exits non-zero after creating it (the file stays, incomplete).
EncoderOutcomes ==
    {"absent", "ok", "error", "error_partial"}

\* burn_captions(video_path, srt_path, output_path)
burn_captions(outcome, output_path) ==
    CASE outcome = "absent" ->
            [success |-> FALSE, result |-> "absent", log |-> "FFmpeg not found",
             dir |-> outDir]
      [] outcome = "ok" ->
            [success |-> TRUE, result |-> "ok", log |-> "",
             dir |-> WriteFile(outDir, output_path, VideoContent("captioned", TRUE))]
      [] outcome = "error" ->
            [success |-> FALSE, result |-> "error", log |-> "FFmpeg error",
             dir |-> outDir]
      [] OTHER ->
            [success |-> FALSE, result |-> "error", log |-> "FFmpeg error",
             dir |-> WriteFile(outDir, output_path, VideoContent("captioned", FALSE))]

\* `if config.get('burn'): success = burn_captions(...)`
Burn ==
    /\ pc = "output"
    /\ config.burn
    /\ \E outcome \in EncoderOutcomes :
          LET b == burn_captions(outcome, CaptionedName)
          IN  /\ outDir' = b.dir
              /\ burnResult' = b.result
              /\ pc' = IF b.success THEN "report" ELSE "fallback_srt"
              /\ IF b.log # ""
                 THEN Log(b.log, stdout, stderr)
                 ELSE UNCHANGED <<stdout, stderr>>
    /\ UNCHANGED <<variant, config, tempExists, everTemp, tempSrt, video, modelLoaded,
                   transcript, srtLog, outDirExists, exitStatus, failure, dlAttempts>>

\* a faulty variant: the copy lands outside the output directory
Copy_elsewhere(name, content, next) ==
    \E ok \in BOOLEAN :
        IF ok
        THEN /\ outDir' = outDir
             /\ pc' = next
             /\ UNCHANGED <<tempExists, exitStatus, failure, stdout, stderr>>
        ELSE /\ outDir' = outDir
             /\ Raise("copy")

\* shutil.copy(src, dst) into the output directory: it succeeds, or raises
\* having written nothing
Copy(name, content, next) ==
    \E ok \in BOOLEAN :
        IF ok
        THEN /\ outDir' = WriteFile(outDir, name, content)
             /\ pc' = next
             /\ UNCHANGED <<tempExists, exitStatus, failure, stdout, stderr>>
        ELSE /\ outDir' = outDir
             /\ Raise("copy")

\* the else branch: shutil.copy(srt_path, output_path)
CopySrt ==
    /\ pc = "output"
    /\ ~config.burn
    /\ Copy(SrtName, SrtContent, "report")
    /\ UNCHANGED <<variant, config, everTemp, tempSrt, video, modelLoaded, transcript,
                   srtLog, outDirExists, burnResult, dlAttempts>>

\* burn failed: shutil.copy(srt_path, fallback_srt_path)
FallbackSrt ==
    /\ pc = "fallback_srt"
    /\ Copy(SrtName, SrtContent, "fallback_video")
    /\ UNCHANGED <<variant, config, everTemp, tempSrt, video, modelLoaded, transcript,
                   srtLog, outDirExists, burnResult, dlAttempts>>

\* burn failed: shutil.copy(video_path, fallback_video_path)
FallbackVideo ==
    /\ pc = "fallback_video"
    /\ Copy(OriginalName, VideoContent("original", TRUE), "report")
    /\ UNCHANGED <<variant, config, everTemp, tempSrt, video, modelLoaded, transcript,
                   srtLog, outDirExists, burnResult, dlAttempts>>

\* ------------------------------------------------------------ the Run Result
WarningText ==
    "Burned captions failed. Saved as separate SRT and video files."

\* result_data as built before the burn
result_data ==
    [success |-> TRUE, output |-> output_filename, detected_lang |-> detected_lang,
     video_title |-> video.title, duration |-> video.duration,
     subtitle_lang |-> IF config.translate_to = None THEN detected_lang
                       ELSE config.translate_to]

\* result_data after the fallback's three assignments
fallback_result_data ==
    [success |-> TRUE, output |-> SrtName, detected_lang |-> detected_lang,
     video_title |-> video.title, duration |-> video.duration,
     subtitle_lang |-> IF config.translate_to = None THEN detected_lang
                       ELSE config.translate_to,
     video_output |-> OriginalName, warning |-> WarningText]

\* a faulty variant: the warning is attached to every burn, failed or not
PrintedResult_always ==
    IF config.burn THEN fallback_result_data ELSE result_data

\* what print(json.dumps(result_data)) prints on each of the three branches
PrintedResult ==
    IF config.burn /\ burnResult # "ok" THEN fallback_result_data ELSE result_data

\* print(json.dumps(result_data)); the standalone script prints a status line
Report ==
    /\ pc = "report"
    /\ stdout' = Append(stdout,
                        IF variant = "web" THEN Json("result", PrintedResult)
                        ELSE Json("text", [line |-> "saved"]))
    /\ pc' = "leave"
    /\ UNCHANGED <<variant, config, tempExists, everTemp, tempSrt, video, modelLoaded,
                   transcript, srtLog, outDirExists, outDir, stderr, exitStatus, failure,
                   burnResult, dlAttempts>>

\* the with block is left and main() returns
LeaveWith ==
    /\ pc = "leave"
    /\ Terminate("zero", "none")
    /\ stdout' = IF variant = "web" THEN stdout
                 ELSE Append(stdout, Json("text", [line |-> "Complete!"]))
    /\ UNCHANGED <<variant, config, everTemp, tempSrt, video, modelLoaded, transcript,
                   srtLog, outDirExists, outDir, stderr, burnResult, dlAttempts>>

\* the stages of main() between which an interrupt can be delivered
InMain ==
    {"main", "mktemp", "acquire", "download_retry", "load_model", "transcribe",
     "srt_open", "srt_loop", "makedirs", "output", "fallback_srt", "fallback_video",
     "report", "leave"}

\* KeyboardInterrupt: uncaught in the web script; the standalone script
\* prints "Cancelled by user" and exits 0
Interrupt ==
    /\ pc \in InMain
    /\ IF variant = "web"
       THEN /\ Terminate("nonzero", "interrupt")
            /\ stderr' = Append(stderr, "KeyboardInterrupt")
            /\ stdout' = stdout
       ELSE /\ Terminate("zero", "interrupt")
            /\ stdout' = Append(stdout, Json("text", [line |-> "Cancelled by user"]))
            /\ stderr' = stderr
    /\ UNCHANGED <<variant, config, everTemp, tempSrt, video, modelLoaded, transcript,
                   srtLog, outDirExists, outDir, burnResult, dlAttempts>>

\* ------------------------------------------------------- specifications
Init ==
    /\ PipeInit
    /\ FmtIdle
    /\ TrIdle

Next ==
    \/ ImportGuards /\ UNCHANGED <<fmtVars, trVars>>
    \/ ParseArgs /\ UNCHANGED <<fmtVars, trVars>>
    \/ Prompt /\ UNCHANGED <<fmtVars, trVars>>
    \/ MkTemp /\ UNCHANGED <<fmtVars, trVars>>
    \/ DownloadFirst /\ UNCHANGED <<fmtVars, trVars>>
    \/ DownloadRetry /\ UNCHANGED <<fmtVars, trVars>>
    \/ AcquireLocal /\ UNCHANGED <<fmtVars, trVars>>
    \/ LoadModel /\ UNCHANGED <<fmtVars, trVars>>
    \/ Transcribe /\ UNCHANGED <<fmtVars, trVars>>
    \/ SrtOpen /\ UNCHANGED <<fmtVars, trVars>>
    \/ SrtStep /\ UNCHANGED <<fmtVars, trVars>>
    \/ SrtClose /\ UNCHANGED <<fmtVars, trVars>>
    \/ MakeDirs /\ UNCHANGED <<fmtVars, trVars>>
    \/ Burn /\ UNCHANGED <<fmtVars, trVars>>
    \/ CopySrt /\ UNCHANGED <<fmtVars, trVars>>
    \/ FallbackSrt /\ UNCHANGED <<fmtVars, trVars>>
    \/ FallbackVideo /\ UNCHANGED <<fmtVars, trVars>>
    \/ Report /\ UNCHANGED <<fmtVars, trVars>>
    \/ LeaveWith /\ UNCHANGED <<fmtVars, trVars>>
    \/ Interrupt /\ UNCHANGED <<fmtVars, trVars>>

\* the runs of the two orchestrators
Spec ==
    Init /\ [][Next]_vars

FmtSpecInit ==
    /\ PipeIdle
    /\ FmtInit
    /\ TrIdle

FmtNext ==
    FormatCall /\ UNCHANGED <<pipeVars, trVars>>

\* format_timestamp applied to the sampled offsets
SpecFmt ==
    FmtSpecInit /\ [][FmtNext]_vars

TrSpecInit ==
    /\ PipeIdle
    /\ FmtIdle
    /\ TrInit

TrNext ==
    TranslateCall /\ UNCHANGED <<pipeVars, fmtVars>>

\* translate_text applied to the sampled arguments and capability outcomes
SpecTranslate ==
    TrSpecInit /\ [][TrNext]_vars

\* ------------------------------------------------------------- properties
\* the Run Results printed on the primary output
RunResults ==
    {stdout[i].body : i \in {j \in 1..Len(stdout) : stdout[j].kind = "result"}}

\* the structured objects printed on the primary output
Structured ==
    {i \in 1..Len(stdout) : stdout[i].kind \in {"result", "error"}}

\* the output directory holds a completely written file of that name
Written(name) ==
    \E f \in outDir : f.name = name /\ f.content.complete

BurnFailed ==
    config.burn /\ burnResult \in {"absent", "error"}

\* C1: a Run Result of the web orchestrator carries a non-empty warning and a
\* video_output exactly when burning was requested and burn_captions returned
\* failure; the run then goes on: the subtitle file is copied to
\* <base><suffix>.srt, the original media to <base>_original.mp4, and the Run
\* Result has success=true, output naming the subtitle file and video_output
\* naming the video copy.
C1_BurnFallback ==
    variant = "web" =>
        /\ \A r \in RunResults :
              /\ ("warning" \in DOMAIN r) <=> BurnFailed
              /\ ("video_output" \in DOMAIN r) <=> BurnFailed
              /\ BurnFailed =>
                    /\ r.warning # ""
                    /\ r.success
                    /\ r.output = [base |-> safe_title(video.title),
                                   suffix |-> language_suffix, tail |-> ".srt"]
                    /\ r.video_output = [base |-> safe_title(video.title),
                                         suffix |-> "", tail |-> "_original.mp4"]
                    /\ \E f \in outDir : /\ f.name = r.output
                                         /\ f.content.kind = "srt"
                                         /\ f.content.records = tempSrt.records
                    /\ \E f \in outDir : /\ f.name = r.video_output
                                         /\ f.content.kind = "original"
                                         /\ f.content.complete
        /\ (BurnFailed /\ pc = "done" /\ failure = "none") =>
              /\ exitStatus = "zero"
              /\ RunResults # {}
        /\ (BurnFailed /\ pc = "done") => failure \in {"none", "copy", "interrupt"}

C1_Witness ==
    /\ variant = "web"
    /\ pc = "done"
    /\ burnResult = "absent"
    /\ \E r \in RunResults : "warning" \in DOMAIN r /\ "video_output" \in DOMAIN r
    /\ Cardinality(outDir) = 2

\* the failures the error taxonomy calls fatal
FatalKinds ==
    {"no_config", "setup", "download", "file_not_found", "model_load", "recognition",
     "emit", "mkdir", "copy"}

\* C2: every fatal failure of a run of the web orchestrator ends the run with
\* a non-zero exit status and a structured {"error": ...} object on the primary
\* output, no Run Result, and nothing left in the output directory; a run that
\* met only non-fatal failures ends with a Run Result.
C2_FatalFailures ==
    (variant = "web" /\ pc = "done") =>
        /\ failure \in FatalKinds =>
              /\ exitStatus = "nonzero"
              /\ \E i \in 1..Len(stdout) : stdout[i].kind = "error"
              /\ RunResults = {}
              /\ outDir = {}
        /\ failure = "none" => RunResults # {}

\* C3: in both orchestrators, a local input that does not exist ends the run
\* with the fatal "file not found" error at the acquisition stage: the model is
\* never loaded, nothing is transcribed or emitted, nothing is written to the
\* output directory.
C3_MissingLocalFile ==
    (config.has /\ ~config.url /\ ~config.exists) =>
        /\ pc \in {"imports", "main", "mktemp", "acquire", "done"}
        /\ ~modelLoaded
        /\ ~transcript.done
        /\ ~tempSrt.exists
        /\ outDir = {}
        /\ (pc = "done" /\ failure \notin {"setup", "interrupt", "mkdir"}) =>
              failure = "file_not_found" /\ exitStatus = "nonzero"

\* the code the translation capability is expected to be given for `code`
ExpectedCode(code) ==
    IF code = "he" THEN "iw"
    ELSE IF code = "zh" THEN "zh-CN"
    ELSE IF code = "jw" THEN "jv"
    ELSE code

\* C4: translate_text never raises; when the translation capability raises or
\* returns nothing it returns the input text unchanged; the capability is given
\* the normalized codes (he->iw, zh->zh-CN, jw->jv, others unchanged), an
\* empty or unset source being replaced by "auto".
C4_TranslateFallback ==
    trOut.done =>
        /\ ~trOut.raised
        /\ trIn.outcome \in {"raise", "empty", "none"} => trOut.value = trIn.text
        /\ trOut.source = IF trIn.source_lang \in {None, ""} THEN "auto"
                          ELSE ExpectedCode(trIn.source_lang)
        /\ trOut.target = ExpectedCode(trIn.target_lang)

C4_Witness ==
    /\ trOut.done
    /\ trIn.outcome = "raise"
    /\ trIn.source_lang = None
    /\ trIn.target_lang = "he"
    /\ trIn.text = <<"h", "i">>
    /\ trOut.value = <<"h", "i">>
    /\ trOut.source = "auto"
    /\ trOut.target = "iw"

\* generate_srt has returned
SrtWritten ==
    pc \in {"makedirs", "output", "fallback_srt", "fallback_video", "report", "leave"}

\* C5: generate_srt writes exactly one record per segment, numbered 1..N in
\* input order, record i carrying the formatted start and end of segment i and
\* the translation of its trimmed text, or its trimmed text when the
\* translation of segment i failed or no target was given; a failed
\* translation never stops or reorders the records after it.
C5_SrtRecords ==
    LET segs == transcript.segments
        recs == tempSrt.records
    IN  /\ Len(recs) <= Len(segs)
        /\ Len(srtLog) = Len(recs)
        /\ SrtWritten => Len(recs) = Len(segs)
        /\ \A i \in 1..Len(recs) :
              /\ recs[i].index = i
              /\ recs[i].start = format_timestamp(segs[i].start)
              /\ recs[i].end = format_timestamp(segs[i].end)
              /\ srtLog[i] = "off" <=> config.translate_to \in {None, ""}
              /\ recs[i].text =
                    IF srtLog[i] = "ok"
                    THEN Translation(Strip(segs[i].text), ExpectedCode(config.translate_to))
                    ELSE Strip(segs[i].text)

C5_Witness ==
    /\ pc = "report"
    /\ Len(transcript.segments) = 2
    /\ srtLog = <<"raise", "ok">>
    /\ tempSrt.records[1].text = <<"h", "i">>
    /\ tempSrt.records[2].index = 2
    /\ tempSrt.records[2].text = <<"[", "iw", "]", "y", "o">>

\* C6: download_youtube_video makes at most two attempts: the first with
\* format "18"; one retry with "best[height<=720]/best", made only when the
\* first failed.  A successful attempt yields path, title and duration (0 when
\* the info has none); when both fail the failure ends the run.
C6_DownloadAttempts ==
    LET n == Len(dlAttempts)
    IN  /\ n <= 2
        /\ n >= 1 => dlAttempts[1].format = "18"
        /\ n = 2 => /\ dlAttempts[2].format = "best[height<=720]/best"
                    /\ ~dlAttempts[1].ok
        /\ (n >= 1 /\ dlAttempts[n].ok) =>
              /\ video.path = "temp"
              /\ video.title = IF dlAttempts[n].info.has_title
                               THEN dlAttempts[n].info.title
                               ELSE <<"v", "i", "d", "e", "o">>
              /\ video.duration = IF dlAttempts[n].info.has_duration
                                  THEN dlAttempts[n].info.duration
                                  ELSE 0
        /\ (n = 1 /\ ~dlAttempts[1].ok) => pc \in {"download_retry", "done"}
        /\ (n = 1 /\ ~dlAttempts[1].ok /\ pc = "done") => failure = "interrupt"
        /\ (n = 2 /\ ~dlAttempts[2].ok) =>
              /\ pc = "done"
              /\ failure = "download"
              /\ exitStatus = "nonzero"
              /\ video.path = "none"

C6_Witness ==
    /\ Len(dlAttempts) = 2
    /\ dlAttempts[2].ok
    /\ ~dlAttempts[2].info.has_duration
    /\ video.duration = 0
    /\ pc = "load_model"

\* C7: however a run that created the temporary directory ends (completion,
\* burn fallback, a failure at any stage, sys.exit for a missing local file,
\* an interrupt between stages), the directory no longer exists afterwards.
C7_TempRemoved ==
    (pc = "done" /\ everTemp) => ~tempExists

C7_Witness ==
    /\ pc = "done"
    /\ everTemp
    /\ ~tempExists
    /\ failure = "file_not_found"

\* C8: a completed run leaves exactly one or two files in the output
\* directory: without burn exactly one .srt (and the Run Result has
\* success=true and no warning); with a successful burn exactly the captioned
\* video; with a failed burn exactly the subtitle file and the original video
\* copy, and nothing created by the attempted burn.
C8_OutputFiles ==
    (pc = "done" /\ failure = "none") =>
        /\ Cardinality(outDir) \in {1, 2}
        /\ ~config.burn =>
              /\ {f.name : f \in outDir} = {SrtName}
              /\ \A r \in RunResults : r.success /\ "warning" \notin DOMAIN r
        /\ (config.burn /\ burnResult = "ok") =>
              {f.name : f \in outDir} = {CaptionedName}
        /\ BurnFailed =>
              {f.name : f \in outDir} = {SrtName, OriginalName}

\* ---------------------------------------------- format_timestamp's output
DigitChars ==
    {"0", "1", "2", "3", "4", "5", "6", "7", "8", "9"}

DigitValue(c) ==
    CHOOSE d \in 0..9 : DigitChar(d) = c

RECURSIVE NumValue(_)
\* the number a digit string denotes
NumValue(s) ==
    IF s = <<>> THEN 0 ELSE 10 * NumValue(SubSeq(s, 1, Len(s) - 1)) + DigitValue(s[Len(s)])

\* `out` reads H:MM:SS,mmm with H of `hourDigits` digits, and denotes `ms`
ReadsAs(out, hourDigits, ms) ==
    LET L == Len(out)
        H == SubSeq(out, 1, hourDigits)
        M == SubSeq(out, hourDigits + 2, hourDigits + 3)
        S == SubSeq(out, hourDigits + 5, hourDigits + 6)
        F == SubSeq(out, hourDigits + 8, hourDigits + 10)
    IN  /\ L = hourDigits + 10
        /\ Range(H) \cup Range(M) \cup Range(S) \cup Range(F) \subseteq DigitChars
        /\ out[hourDigits + 1] = ":"
        /\ out[hourDigits + 4] = ":"
        /\ out[hourDigits + 7] = ","
        /\ NumValue(H) = ms \div 3600000
        /\ NumValue(M) \in 0..59
        /\ NumValue(S) \in 0..59
        /\ NumValue(H) * 3600000 + NumValue(M) * 60000 + NumValue(S) * 1000 + NumValue(F) = ms

C10_ResultLast ==
    variant = "web" =>
        /\ Cardinality(Structured) <= 1
        /\ Len(stdout) <= 1
        /\ \A r \in RunResults :
              /\ r.success
              /\ outDirExists
              /\ Written(r.output)
              /\ "video_output" \in DOMAIN r => Written(r.video_output)
              /\ pc \in {"leave", "done"}

C10_Witness ==
    /\ variant = "web"
    /\ pc = "leave"
    /\ config.burn
    /\ burnResult = "ok"
    /\ RunResults # {}

====
